---- MODULE Spec2Model ----
(***************************************************************************)
(* Model of the gx-poc scripts: the custom profiler                        *)
(* (scripts/profile_data.py) and the validation runner                     *)
(* (scripts/run_validation.py).                                            *)
(*                                                                         *)
(* Conventions                                                             *)
(*  - A Python Optional is a sequence: None is <<>>, a present value v is  *)
(*    <<v>>.                                                               *)
(*  - A column name is a sequence of one-character strings.                *)
(*  - A float read from the database is a decimal: an integer mantissa in  *)
(*    units of 10^-scale, where scale is the column's number of decimal    *)
(*    places (0 for the integer types).  Products with the literal 0.1     *)
(*    shift the unit by one decimal place, so all arithmetic is exact;     *)
(*    bounds of emitted range rules are integers in units of 10^-4, the    *)
(*    result of round(x, 4).                                               *)
(***************************************************************************)
EXTENDS Integers, Sequences, FiniteSets, TLC

VARIABLES
    g_stats,          \* generate_expectations_from_stats: argument stats
    g_suite,          \* ... suite.expectations after the call
    g_added,          \* ... its return value expectations_added
    g_pc,             \* "start" before the call, "done" after it
    db,               \* the database: table name -> sequence of rows
    suites,           \* context.suites: sequence of [name, expectations]
    p_pc,             \* profiler main(): "idle", "loop" or "summary"
    p_idx,            \* profiler main(): index into tables of the next table
    p_runs,           \* number of profiler processes started
    edits,            \* number of changes made to the database
    hist,             \* per table, the last two calls of auto_profile_table
    batch_defs,       \* names of the batch definitions the framework holds
    validation_defs,  \* names of the validation definitions it holds
    v_pc,             \* validator main(): "idle", "loop" or "exited"
    v_idx,            \* validator main(): index into validations
    v_runs,           \* number of validator processes started
    results,          \* validator main(): the list results
    calls,            \* the calls of run_validation of this process
    summary,          \* the totals [passed, failed, skipped] printed
    exit_code         \* exit status of the last validator process

gvars == <<g_stats, g_suite, g_added, g_pc>>

pvars == <<db, suites, p_pc, p_idx, p_runs, edits, hist>>

vvars == <<batch_defs, validation_defs, v_pc, v_idx, v_runs, results, calls,
           summary, exit_code>>

vars == <<gvars, pvars, vvars>>

(* the variables of the scripts that a specification does not run *)
ProfilerAtRest ==
    /\ db = <<>>
    /\ suites = <<>>
    /\ p_pc = "idle"
    /\ p_idx = 0
    /\ p_runs = 0
    /\ edits = 0
    /\ hist = <<>>

GeneratorAtRest ==
    /\ g_stats = <<>>
    /\ g_suite = <<>>
    /\ g_added = 0
    /\ g_pc = "start"

ValidatorAtRest ==
    /\ batch_defs = {}
    /\ validation_defs = {}
    /\ v_pc = "idle"
    /\ v_idx = 0
    /\ v_runs = 0
    /\ results = <<>>
    /\ calls = <<>>
    /\ summary = <<>>
    /\ exit_code = <<>>

---------------------------------------------------------------------------
(* Optional values *)

None == <<>>

Some(v) == <<v>>

Val(o) == o[1]

Abs(x) == IF x < 0 THEN -x ELSE x

RECURSIVE Pow10(_)
Pow10(k) == IF k = 0 THEN 1 ELSE 10 * Pow10(k - 1)

---------------------------------------------------------------------------
(* str.lower(), the "in" operator on strings and str.endswith *)

LowerChar(c) ==
    CASE c = "I" -> "i"
      [] c = "D" -> "d"
      [] c = "W" -> "w"
      [] OTHER   -> c

Lower(s) == [i \in 1..Len(s) |-> LowerChar(s[i])]

Contains(s, sub) ==
    \E i \in 1..(Len(s) - Len(sub) + 1) : SubSeq(s, i, i + Len(sub) - 1) = sub

EndsWith(s, suf) ==
    /\ Len(s) >= Len(suf)
    /\ SubSeq(s, Len(s) - Len(suf) + 1, Len(s)) = suf

(* a variant that matches "id" anywhere in the name *)
LooksLikeIdAnywhere(col) == Contains(Lower(col), <<"i", "d">>)

(* profile_data.py:141 *)
LooksLikeId(col) ==
    \/ Contains(Lower(col), <<"_", "i", "d">>)
    \/ EndsWith(Lower(col), <<"i", "d">>)

---------------------------------------------------------------------------
(* The four kinds of rule.  Every rule has the same fields; a field that   *)
(* a kind does not have is None.                                           *)

ExpectColumnValuesToNotBeNull(col) ==
    [type |-> "not_null", column |-> col, min_value |-> None, max_value |-> None]

ExpectColumnValuesToBeBetween(col, lo, hi) ==
    [type |-> "between", column |-> col,
     min_value |-> Some(lo), max_value |-> Some(hi)]

ExpectColumnValuesToBeUnique(col) ==
    [type |-> "unique", column |-> col, min_value |-> None, max_value |-> None]

ExpectTableRowCountToBeBetween(lo, hi) ==
    [type |-> "row_count", column |-> None,
     min_value |-> Some(lo), max_value |-> Some(hi)]

(* suite.add_expectation: the rule is appended to suite.expectations *)
add_expectation(suite, exp) == Append(suite, exp)

---------------------------------------------------------------------------
(* round(x, 4): x = m * 10^-e, result in units of 10^-4, to nearest.  On a  *)
(* decimal tie Python decides by the binary value of the float; the model  *)
(* rounds a tie to even.  No input within the bounds below produces a tie. *)

RoundHalfEven(n, d) ==
    LET q == n \div d
        r == n % d
    IN  IF 2 * r < d THEN q
        ELSE IF 2 * r > d THEN q + 1
        ELSE IF q % 2 = 0 THEN q ELSE q + 1

Round4(m, e) ==
    IF e <= 4 THEN m * Pow10(4 - e) ELSE RoundHalfEven(m, Pow10(e - 4))

---------------------------------------------------------------------------
(* generate_expectations_from_stats, step 2 (profile_data.py:115-136)      *)

(* a variant without the substitute span for max = min *)
RangeSizeNoDegenerate(stat) == (Val(stat.max) - Val(stat.min)) * 10

(* range_size in units of 10^-(scale+1), profile_data.py:120 *)

RangeSize(stat) ==
    IF Val(stat.max) # Val(stat.min)
    THEN (Val(stat.max) - Val(stat.min)) * 10
    ELSE Abs(Val(stat.max))

(* margin = range_size * 0.1, in units of 10^-(scale+2) *)
Margin(stat) == RangeSize(stat)

(* expected_min, expected_max in units of 10^-(scale+2) *)
ExpectedMin(stat) == Val(stat.min) * 100 - Margin(stat)

(* a variant with the sign of the margin flipped *)
ExpectedMaxMinusMargin(stat) == Val(stat.max) * 100 - Margin(stat)

ExpectedMax(stat) == Val(stat.max) * 100 + Margin(stat)

RangeRule(stat) ==
    ExpectColumnValuesToBeBetween(stat.column,
        Round4(ExpectedMin(stat), stat.scale + 2),
        Round4(ExpectedMax(stat), stat.scale + 2))

---------------------------------------------------------------------------
(* generate_expectations_from_stats (profile_data.py:97-167)               *)
(* The accumulator is [suite |-> suite.expectations, added |-> the         *)
(* counter expectations_added].                                            *)

Emit(acc, exp) ==
    [suite |-> add_expectation(acc.suite, exp), added |-> acc.added + 1]

(* a variant that also requires the column to be declared NOT NULL *)
NotNullStepIfDeclaredNotNull(acc, stat) ==
    IF stat.null_count = Some(0) /\ ~stat.is_nullable
    THEN Emit(acc, ExpectColumnValuesToNotBeNull(stat.column))
    ELSE acc

(* 1. not-null rule, profile_data.py:105-112 *)
NotNullStep(acc, stat) ==
    IF stat.null_count = Some(0)
    THEN Emit(acc, ExpectColumnValuesToNotBeNull(stat.column))
    ELSE acc

(* 2. range rule, profile_data.py:115-136 *)
RangeStep(acc, stat) ==
    IF stat.is_numeric /\ stat.min # None
    THEN Emit(acc, RangeRule(stat))
    ELSE acc

(* 3. uniqueness rule, profile_data.py:139-148 *)
UniqueStep(acc, stat) ==
    IF stat.distinct_count = stat.total_count /\ stat.total_count > 0
    THEN IF LooksLikeId(stat.column)
         THEN Emit(acc, ExpectColumnValuesToBeUnique(stat.column))
         ELSE acc
    ELSE acc

(* the body of the loop over stats, profile_data.py:101-148 *)
GenColumn(acc, stat) == UniqueStep(RangeStep(NotNullStep(acc, stat), stat), stat)

RECURSIVE GenColumns(_, _)
GenColumns(acc, stats) ==
    IF stats = <<>> THEN acc
    ELSE GenColumns(GenColumn(acc, Head(stats)), Tail(stats))

(* int(row_count * 0.8), int(row_count * 1.2): truncation of a non-negative *)
(* product, profile_data.py:154-155                                         *)
(* a variant that rounds to nearest instead of truncating *)
MinRowsRounded(row_count) == (row_count * 8 + 5) \div 10

MinRows(row_count) == (row_count * 8) \div 10

MaxRows(row_count) == (row_count * 12) \div 10

(* 4. row-count rule, profile_data.py:151-165 *)
RowCountStep(acc, stats) ==
    IF stats # <<>> /\ stats[1].total_count # 0
    THEN Emit(acc, ExpectTableRowCountToBeBetween(
                       MinRows(stats[1].total_count),
                       MaxRows(stats[1].total_count)))
    ELSE acc

generate_expectations_from_stats(suite, stats) ==
    RowCountStep(GenColumns([suite |-> suite, added |-> 0], stats), stats)

---------------------------------------------------------------------------
(* Inputs of generate_expectations_from_stats: the column records that     *)
(* get_column_stats can return for one table (profile_data.py:46-92).      *)

MaxRowCount == 3

MaxVal == 2

(* column names over which the naming heuristic is exercised *)
n_i_id      == <<"i", "_", "i", "d">>
n_i_price   == <<"i", "_", "p", "r", "i", "c", "e">>
n_paid      == <<"p", "a", "i", "d">>
n_W_ID      == <<"W", "_", "I", "D">>
n_w_idx     == <<"w", "_", "i", "d", "x">>
n_idx       == <<"i", "d", "x">>
n_ol_o_id   == <<"o", "l", "_", "o", "_", "i", "d">>
n_ol_amount == <<"o", "l", "_", "a", "m", "o", "u", "n", "t">>

ColNames == {n_i_id, n_i_price, n_paid, n_W_ID, n_w_idx, n_idx}

(* data_type, decimal places *)
NumericTypes == {<<"integer", 0>>, <<"numeric", 2>>, <<"numeric", 5>>}

OtherTypes == {"character varying"}

(* null_count, distinct_count, min and max that one column of a table of   *)
(* N rows can have: SUM(...) over no rows is NULL; MIN and MAX over no     *)
(* non-null value are NULL; min = max exactly when one distinct value.     *)
Shapes(N) ==
    IF N = 0
    THEN {[null_count |-> None, distinct_count |-> 0, min |-> None, max |-> None]}
    ELSE {[null_count |-> Some(N), distinct_count |-> 0, min |-> None, max |-> None]}
         \cup
         {[null_count |-> Some(k), distinct_count |-> d,
           min |-> Some(mn), max |-> Some(mx)] :
             <<k, d, mn, mx>> \in
               {t \in (0..(N - 1)) \X (1..N) \X (-MaxVal..MaxVal) \X (-MaxVal..MaxVal) :
                   /\ t[2] <= N - t[1]
                   /\ t[3] <= t[4]
                   /\ (t[2] = 1) <=> (t[3] = t[4])
                   /\ t[2] <= t[4] - t[3] + 1}}

NullableFlags(sh) == IF sh.null_count \in {None, Some(0)} THEN BOOLEAN ELSE {TRUE}

NumericStats(N) ==
    {[column |-> c, data_type |-> ty[1], is_nullable |-> nl, is_numeric |-> TRUE,
      scale |-> ty[2], min |-> sh.min, max |-> sh.max, total_count |-> N,
      null_count |-> sh.null_count, distinct_count |-> sh.distinct_count] :
        <<c, ty, sh, nl>> \in
          {t \in ColNames \X NumericTypes \X Shapes(N) \X BOOLEAN :
              t[4] \in NullableFlags(t[3])}}

OtherStats(N) ==
    {[column |-> c, data_type |-> ty, is_nullable |-> nl, is_numeric |-> FALSE,
      scale |-> 0, min |-> None, max |-> None, total_count |-> N,
      null_count |-> sh.null_count, distinct_count |-> sh.distinct_count] :
        <<c, ty, sh, nl>> \in
          {t \in ColNames \X OtherTypes \X Shapes(N) \X BOOLEAN :
              t[4] \in NullableFlags(t[3])}}

ColumnStats(N) == NumericStats(N) \cup OtherStats(N)

(* a fixed companion column, so that every column record is also seen in   *)
(* a table of two columns, first and second                                *)
Companion(N) ==
    [column |-> n_ol_amount, data_type |-> "character varying",
     is_nullable |-> TRUE, is_numeric |-> FALSE, scale |-> 0,
     min |-> None, max |-> None, total_count |-> N,
     null_count |-> IF N = 0 THEN None ELSE Some(0),
     distinct_count |-> IF N = 0 THEN 0 ELSE 1]

BoundedTables ==
    UNION {{<<c>> : c \in ColumnStats(N)}
           \cup {<<c, Companion(N)>> : c \in ColumnStats(N)}
           \cup {<<Companion(N), c>> : c \in ColumnStats(N)} : N \in 0..MaxRowCount}

(* table item: 100000 rows, i_id integer 1..100000 all distinct, i_price   *)
(* numeric(5,2) 1.00..100.00 with 9900 distinct values                     *)
ItemStats ==
    << [column |-> n_i_id, data_type |-> "integer", is_nullable |-> FALSE,
        is_numeric |-> TRUE, scale |-> 0, min |-> Some(1), max |-> Some(100000),
        total_count |-> 100000, null_count |-> Some(0), distinct_count |-> 100000],
       [column |-> n_i_price, data_type |-> "numeric", is_nullable |-> TRUE,
        is_numeric |-> TRUE, scale |-> 2, min |-> Some(100), max |-> Some(10000),
        total_count |-> 100000, null_count |-> Some(0), distinct_count |-> 9900] >>

(* table order_line: 1000 rows, ol_o_id and ol_amount both all distinct *)
OrderLineStats ==
    << [column |-> n_ol_o_id, data_type |-> "integer", is_nullable |-> FALSE,
        is_numeric |-> TRUE, scale |-> 0, min |-> Some(1), max |-> Some(1000),
        total_count |-> 1000, null_count |-> Some(0), distinct_count |-> 1000],
       [column |-> n_ol_amount, data_type |-> "numeric", is_nullable |-> TRUE,
        is_numeric |-> TRUE, scale |-> 2, min |-> Some(1), max |-> Some(999900),
        total_count |-> 1000, null_count |-> Some(0), distinct_count |-> 1000] >>

GenInputs == BoundedTables \cup {<<>>, ItemStats, OrderLineStats}

---------------------------------------------------------------------------
(* Specification SpecGen: generate_expectations_from_stats applied to a    *)
(* fresh suite.                                                            *)

InitGen ==
    /\ g_stats \in GenInputs
    /\ g_suite = <<>>
    /\ g_added = 0
    /\ g_pc = "start"
    /\ ProfilerAtRest
    /\ ValidatorAtRest

Generate ==
    /\ g_pc = "start"
    /\ LET r == generate_expectations_from_stats(<<>>, g_stats)
       IN  /\ g_suite' = r.suite
           /\ g_added' = r.added
    /\ g_pc' = "done"
    /\ UNCHANGED <<g_stats, pvars, vvars>>

NextGen == Generate

SpecGen == InitGen /\ [][NextGen]_vars

---------------------------------------------------------------------------
(* Properties of generate_expectations_from_stats, checked under SpecGen   *)

(* positions in the generated suite of the rules of one kind on one column *)
Rules(type, col) ==
    {i \in DOMAIN g_suite : g_suite[i].type = type /\ g_suite[i].column = col}

(* the names of the model that, compared case-insensitively, contain "_id" *)
(* or end in "id"                                                          *)
IdNames == {n_i_id, n_paid, n_W_ID, n_w_idx, n_ol_o_id}

(* x (an integer, units of 10^-4) is m * 10^-e rounded to 4 decimal places: *)
(* no multiple of 10^-4 is nearer to m * 10^-e                             *)
IsRounded4(x, m, e) ==
    IF e <= 4 THEN x = m * Pow10(4 - e)
    ELSE 2 * Abs(x * Pow10(e - 4) - m) <= Pow10(e - 4)

(* the numeric column records whose observed minimum equals the maximum *)
Degenerate(i) ==
    /\ g_stats[i].is_numeric
    /\ g_stats[i].min # None
    /\ g_stats[i].min = g_stats[i].max

(* C5 as written: for min = max = v # 0 the range rule is                  *)
(* [v - 0.1|v|, v + 0.1|v|] rounded to 4 decimal places.                   *)
C5_Original ==
    g_pc = "done" =>
        \A i \in DOMAIN g_stats :
            (Degenerate(i) /\ Val(g_stats[i].min) # 0) =>
                LET v == Val(g_stats[i].min)
                    e == g_stats[i].scale + 1
                IN  \E k \in Rules("between", g_stats[i].column) :
                        /\ IsRounded4(Val(g_suite[k].min_value), 10 * v - Abs(v), e)
                        /\ IsRounded4(Val(g_suite[k].max_value), 10 * v + Abs(v), e)

(* C5 amended: for every numeric column with min = max = v # 0 exactly one *)
(* range rule is emitted and its bounds are v - 0.01|v| and v + 0.01|v|    *)
(* rounded to 4 decimal places; for v = 0 the rule is [0, 0].              *)
C5_DegenerateRange ==
    g_pc = "done" =>
        \A i \in DOMAIN g_stats :
            Degenerate(i) =>
                LET v == Val(g_stats[i].min)
                    e == g_stats[i].scale + 2
                    R == Rules("between", g_stats[i].column)
                IN  /\ Cardinality(R) = 1
                    /\ \A k \in R :
                        /\ IsRounded4(Val(g_suite[k].min_value), 100 * v - Abs(v), e)
                        /\ IsRounded4(Val(g_suite[k].max_value), 100 * v + Abs(v), e)
                        /\ v = 0 => /\ g_suite[k].min_value = Some(0)
                                    /\ g_suite[k].max_value = Some(0)

C5_Witness ==
    /\ g_pc = "done"
    /\ \E i \in DOMAIN g_stats :
        /\ Degenerate(i)
        /\ Val(g_stats[i].min) < 0
        /\ g_stats[i].scale = 0
        /\ Rules("between", g_stats[i].column) # {}

(* C6: a uniqueness rule is emitted for a column if and only if            *)
(* distinct_count = total_count, total_count > 0 and the column name,      *)
(* compared case-insensitively, contains "_id" or ends in "id"; ol_o_id    *)
(* with distinct = total = 1000 gets one, ol_amount does not.              *)
C6_UniqueIff ==
    g_pc = "done" =>
        /\ \A i \in DOMAIN g_stats :
              Cardinality(Rules("unique", g_stats[i].column)) =
                  IF /\ g_stats[i].distinct_count = g_stats[i].total_count
                     /\ g_stats[i].total_count > 0
                     /\ g_stats[i].column \in IdNames
                  THEN 1 ELSE 0
        /\ g_stats = OrderLineStats =>
              /\ Rules("unique", n_ol_o_id) # {}
              /\ Rules("unique", n_ol_amount) = {}

C6_Witness ==
    /\ g_pc = "done"
    /\ g_stats = OrderLineStats
    /\ Rules("unique", n_ol_o_id) # {}

(* C7: exactly one row-count rule is emitted, with bounds floor(0.8 N) and *)
(* floor(1.2 N) for N the total row count of the first column record; none *)
(* is emitted when N = 0 or there is no column record.                     *)
C7_RowCountBand ==
    g_pc = "done" =>
        LET R == {i \in DOMAIN g_suite : g_suite[i].type = "row_count"}
        IN  IF g_stats # <<>> /\ g_stats[1].total_count > 0
            THEN /\ Cardinality(R) = 1
                 /\ \A k \in R :
                      LET N  == g_stats[1].total_count
                          lo == Val(g_suite[k].min_value)
                          hi == Val(g_suite[k].max_value)
                      IN  /\ 10 * lo <= 8 * N
                          /\ 8 * N < 10 * (lo + 1)
                          /\ 10 * hi <= 12 * N
                          /\ 12 * N < 10 * (hi + 1)
            ELSE R = {}

C7_Witness ==
    /\ g_pc = "done"
    /\ g_stats # <<>>
    /\ g_stats[1].total_count = 3
    /\ \E k \in DOMAIN g_suite :
        /\ g_suite[k].type = "row_count"
        /\ g_suite[k].min_value = Some(2)
        /\ g_suite[k].max_value = Some(3)

ItemRules(i_id_upper) ==
    << ExpectColumnValuesToNotBeNull(n_i_id),
       ExpectColumnValuesToBeBetween(n_i_id, -99989000, i_id_upper),
       ExpectColumnValuesToBeUnique(n_i_id),
       ExpectColumnValuesToNotBeNull(n_i_price),
       ExpectColumnValuesToBeBetween(n_i_price, -89000, 1099000),
       ExpectTableRowCountToBeBetween(80000, 120000) >>

(* C9 as written: the item scenario yields not-null(i_id),                 *)
(* range(i_id, [-9998.9, 109998.9]), uniqueness(i_id), not-null(i_price),  *)
(* range(i_price, [-8.9, 109.9]), row-count-band([80000, 120000]).         *)
C9_Original ==
    (g_pc = "done" /\ g_stats = ItemStats) => g_suite = ItemRules(1099989000)

(* C9 amended: the same six rules in the same order, the range of i_id     *)
(* being [-9998.9, 109999.9]; six rules are counted and none is a          *)
(* uniqueness rule on i_price.                                             *)
C9_ItemScenario ==
    (g_pc = "done" /\ g_stats = ItemStats) =>
        /\ g_suite = ItemRules(1099999000)
        /\ g_added = 6
        /\ Rules("unique", n_i_price) = {}

C9_Witness ==
    /\ g_pc = "done"
    /\ g_stats = ItemStats
    /\ Len(g_suite) = 6

(* C10: every emitted range rule admits the observed data: its lower bound *)
(* after rounding is <= the observed min and its upper bound after         *)
(* rounding is >= the observed max.                                        *)
C10_RangeAdmitsData ==
    g_pc = "done" =>
        \A i \in DOMAIN g_stats :
            (g_stats[i].is_numeric /\ g_stats[i].min # None) =>
                \A k \in Rules("between", g_stats[i].column) :
                    /\ Val(g_suite[k].min_value) * Pow10(g_stats[i].scale)
                          <= Val(g_stats[i].min) * 10000
                    /\ Val(g_suite[k].max_value) * Pow10(g_stats[i].scale)
                          >= Val(g_stats[i].max) * 10000

---------------------------------------------------------------------------
(* The profiler: get_column_stats, auto_profile_table and main of          *)
(* profile_data.py, over a database and the framework's suite store.       *)

MaxTableRows == 2

MaxCell == 2

MaxEdits == 3

MaxRuns == 2

(* profile_data.py:232-238 *)
tables ==
    << [table_name |-> "warehouse",  suite_name |-> "warehouse_auto"],
       [table_name |-> "customer",   suite_name |-> "customer_auto"],
       [table_name |-> "orders",     suite_name |-> "orders_auto"],
       [table_name |-> "order_line", suite_name |-> "order_line_auto"],
       [table_name |-> "item",       suite_name |-> "item_auto"] >>

TableNames == {tables[i].table_name : i \in DOMAIN tables}

(* information_schema.columns of the five tables, reduced to at most two   *)
(* columns each: column_name, data_type, is_nullable and the number of     *)
(* decimal places of the type (profile_data.py:32-44)                      *)
Column(name, ty, scale, nullable) ==
    [column_name |-> name, data_type |-> ty, scale |-> scale, is_nullable |-> nullable]

Schema(t) ==
    CASE t = "warehouse"  -> << Column(<<"w", "_", "i", "d">>, "integer", 0, "NO") >>
      [] t = "customer"   -> << Column(<<"c", "_", "l", "a", "s", "t">>,
                                       "character varying", 0, "YES") >>
      [] t = "orders"     -> << Column(<<"o", "_", "i", "d">>, "integer", 0, "NO"),
                                Column(<<"o", "_", "c", "a", "r", "r", "i", "e", "r",
                                         "_", "i", "d">>, "integer", 0, "YES") >>
      [] t = "order_line" -> << Column(n_ol_amount, "numeric", 2, "YES") >>
      [] t = "item"       -> << Column(n_i_id, "integer", 0, "NO"),
                                Column(n_i_price, "numeric", 2, "YES") >>

(* the rows a table can hold: one cell per column, NULL (None) only in a   *)
(* nullable column                                                         *)
Cells(col) ==
    {Some(v) : v \in 1..MaxCell} \cup (IF col.is_nullable = "YES" THEN {None} ELSE {})

RowsOf(t) ==
    {r \in [DOMAIN Schema(t) -> {Some(v) : v \in 1..MaxCell} \cup {None}] :
        \A j \in DOMAIN Schema(t) : r[j] \in Cells(Schema(t)[j])}

(* profile_data.py:54 *)
NumericTypeNames ==
    {"integer", "smallint", "bigint", "numeric", "real", "double precision"}

SetMin(S) == CHOOSE x \in S : \A y \in S : x <= y

SetMax(S) == CHOOSE x \in S : \A y \in S : x >= y

(* the aggregates of one column over rows (profile_data.py:55-64, 77-83):  *)
(* MIN, MAX are NULL without a non-null value, SUM(...) is NULL without a  *)
(* row, the row count and the distinct count never are                     *)
NonNull(rows, j) == {Val(rows[i][j]) : i \in {k \in DOMAIN rows : rows[k][j] # None}}

SqlMin(rows, j) == IF NonNull(rows, j) = {} THEN None ELSE Some(SetMin(NonNull(rows, j)))

SqlMax(rows, j) == IF NonNull(rows, j) = {} THEN None ELSE Some(SetMax(NonNull(rows, j)))

SqlNullCount(rows, j) ==
    IF rows = <<>> THEN None
    ELSE Some(Cardinality({i \in DOMAIN rows : rows[i][j] = None}))

(* one column record, profile_data.py:46-92 *)
ColumnStat(col, rows, j) ==
    IF col.data_type \in NumericTypeNames
    THEN [column |-> col.column_name, data_type |-> col.data_type,
          is_nullable |-> (col.is_nullable = "YES"), is_numeric |-> TRUE,
          scale |-> col.scale,
          min |-> SqlMin(rows, j), max |-> SqlMax(rows, j),
          total_count |-> Len(rows), null_count |-> SqlNullCount(rows, j),
          distinct_count |-> Cardinality(NonNull(rows, j))]
    ELSE [column |-> col.column_name, data_type |-> col.data_type,
          is_nullable |-> (col.is_nullable = "YES"), is_numeric |-> FALSE,
          scale |-> col.scale,
          min |-> None, max |-> None,
          total_count |-> Len(rows), null_count |-> SqlNullCount(rows, j),
          distinct_count |-> Cardinality(NonNull(rows, j))]

(* profile_data.py:27-94 *)
get_column_stats(rows, table_name) ==
    [j \in DOMAIN Schema(table_name) |-> ColumnStat(Schema(table_name)[j], rows, j)]

(* the statistics display of auto_profile_table (profile_data.py:182-191): *)
(* formatting None with :.2f raises TypeError                              *)
DisplayRaises(stats) ==
    \E i \in DOMAIN stats :
        stats[i].is_numeric /\ (stats[i].min = None \/ stats[i].max = None)

(* context.suites: add raises when the name exists (profile_data.py:196),  *)
(* delete removes the named suite (profile_data.py:200)                    *)
SuiteExists(store, name) == \E i \in DOMAIN store : store[i].name = name

SuitesDelete(store, name) == SelectSeq(store, LAMBDA su : su.name # name)

(* profile_data.py:195-206: create the suite, replacing one of the same    *)
(* name, and fill it                                                       *)
CreateAndFill(store, name, stats) ==
    LET base == IF SuiteExists(store, name) THEN SuitesDelete(store, name) ELSE store
    IN  Append(base, [name |-> name,
                      expectations |->
                          generate_expectations_from_stats(<<>>, stats).suite])

(* profile_data.py:170-214; the result is whether the call raised and the  *)
(* suite store it leaves                                                   *)
auto_profile_table(store, rows, table_name, suite_name) ==
    LET stats == get_column_stats(rows, table_name)
    IN  IF DisplayRaises(stats)
        THEN [raised |-> TRUE, store |-> store]
        ELSE [raised |-> FALSE, store |-> CreateAndFill(store, suite_name, stats)]

---------------------------------------------------------------------------
(* Specification SpecProfiler: runs of the profiler's main() over a        *)
(* database whose tables start empty and change between and during runs.   *)

(* what one call of auto_profile_table saw and left: the rows of the       *)
(* table, whether it raised, how many suites carry the table's suite name  *)
(* afterwards and the rules of the first of them (None without one)        *)
Copies(store, name) == Cardinality({i \in DOMAIN store : store[i].name = name})

RulesOf(store, name) ==
    IF SuiteExists(store, name)
    THEN Some(store[CHOOSE i \in DOMAIN store : store[i].name = name].expectations)
    ELSE None

Record2(h, e) == IF Len(h) = 2 THEN <<h[2], e>> ELSE Append(h, e)

InitProfiler ==
    /\ db = [t \in TableNames |-> <<>>]
    /\ suites = <<>>
    /\ p_pc = "idle"
    /\ p_idx = 0
    /\ p_runs = 0
    /\ edits = 0
    /\ hist = [t \in TableNames |-> <<>>]
    /\ GeneratorAtRest
    /\ ValidatorAtRest

(* the database changes: a row is inserted *)
InsertRow ==
    /\ edits < MaxEdits
    /\ \E t \in TableNames : \E r \in RowsOf(t) :
        /\ Len(db[t]) < MaxTableRows
        /\ db' = [db EXCEPT ![t] = Append(@, r)]
    /\ edits' = edits + 1
    /\ UNCHANGED <<suites, p_pc, p_idx, p_runs, hist, gvars, vvars>>

(* the database changes: a table is emptied *)
DeleteRows ==
    /\ edits < MaxEdits
    /\ \E t \in TableNames :
        /\ db[t] # <<>>
        /\ db' = [db EXCEPT ![t] = <<>>]
    /\ edits' = edits + 1
    /\ UNCHANGED <<suites, p_pc, p_idx, p_runs, hist, gvars, vvars>>

(* profile_data.py:217-238: a profiler process starts *)
ProfilerStart ==
    /\ p_pc = "idle"
    /\ p_runs < MaxRuns
    /\ p_pc' = "loop"
    /\ p_idx' = 1
    /\ p_runs' = p_runs + 1
    /\ UNCHANGED <<db, suites, edits, hist, gvars, vvars>>

(* profile_data.py:240-247: one iteration of the loop over tables; an      *)
(* exception of auto_profile_table is caught and printed                   *)
ProfileTable ==
    /\ p_pc = "loop"
    /\ p_idx <= Len(tables)
    /\ LET t  == tables[p_idx].table_name
           sn == tables[p_idx].suite_name
           r  == auto_profile_table(suites, db[t], t, sn)
       IN  /\ suites' = r.store
           /\ hist' = [hist EXCEPT ![t] =
                         Record2(@, [data |-> db[t], raised |-> r.raised,
                                     copies |-> Copies(r.store, sn),
                                     rules |-> RulesOf(r.store, sn)])]
    /\ p_idx' = p_idx + 1
    /\ UNCHANGED <<db, p_pc, p_runs, edits, gvars, vvars>>

(* profile_data.py:249-256: the loop is over, the summary is printed and   *)
(* the process ends                                                        *)
ProfilerFinish ==
    /\ p_pc = "loop"
    /\ p_idx > Len(tables)
    /\ p_pc' = "idle"
    /\ p_idx' = 0
    /\ UNCHANGED <<db, suites, p_runs, edits, hist, gvars, vvars>>

NextProfiler ==
    \/ InsertRow
    \/ DeleteRows
    \/ ProfilerStart
    \/ ProfileTable
    \/ ProfilerFinish

SpecProfiler == InitProfiler /\ [][NextProfiler]_vars

---------------------------------------------------------------------------
(* Properties of the profiler, checked under SpecProfiler                  *)

(* C3: when auto_profile_table runs again for a table whose data is        *)
(* unchanged, exactly one rule collection exists afterwards under the      *)
(* table's collection name and it holds the same rules as after the        *)
(* previous run.                                                           *)
C3_RerunIdempotent ==
    \A t \in TableNames :
        (Len(hist[t]) = 2 /\ hist[t][1].data = hist[t][2].data) =>
            /\ hist[t][2].copies = 1
            /\ hist[t][2].rules = hist[t][1].rules

(* C4: when a profiled table has zero rows, auto_profile_table raises no   *)
(* error, runs to completion and the table's rule collection exists.       *)
C4_EmptyTableCompletes ==
    \A t \in TableNames :
        (hist[t] # <<>> /\ hist[t][Len(hist[t])].data = <<>>) =>
            /\ ~hist[t][Len(hist[t])].raised
            /\ hist[t][Len(hist[t])].copies = 1

(* the part of C3 that the code keeps: a second run that completes over    *)
(* unchanged data leaves one collection with the rules of the first run    *)
RerunIdempotentWhenCompleted ==
    \A t \in TableNames :
        (/\ Len(hist[t]) = 2
         /\ hist[t][1].data = hist[t][2].data
         /\ ~hist[t][2].raised) =>
            /\ hist[t][2].copies = 1
            /\ hist[t][2].rules = hist[t][1].rules

(* the part of C4 that the code keeps: over an empty table without a       *)
(* numeric column the rules are skipped and an empty collection is created *)
EmptyTableWithoutNumericColumn ==
    \A t \in TableNames :
        (/\ hist[t] # <<>>
         /\ hist[t][Len(hist[t])].data = <<>>
         /\ \A j \in DOMAIN Schema(t) : Schema(t)[j].data_type \notin NumericTypeNames) =>
            /\ ~hist[t][Len(hist[t])].raised
            /\ hist[t][Len(hist[t])].rules = Some(<<>>)

---------------------------------------------------------------------------
(* The validator: run_validation and main of run_validation.py            *)

MaxValidatorRuns == 2

(* run_validation.py:71-77 *)
validations ==
    << [datasource_name |-> "tpcc_postgres", asset_name |-> "warehouse_asset",
        suite_name |-> "warehouse_auto"],
       [datasource_name |-> "tpcc_postgres", asset_name |-> "customer_asset",
        suite_name |-> "customer_auto"],
       [datasource_name |-> "tpcc_postgres", asset_name |-> "orders_asset",
        suite_name |-> "orders_auto"],
       [datasource_name |-> "tpcc_postgres", asset_name |-> "order_line_asset",
        suite_name |-> "order_line_auto"],
       [datasource_name |-> "tpcc_postgres", asset_name |-> "item_asset",
        suite_name |-> "item_auto"] >>

(* the calls of run_validation that can raise; "none": no call raises.     *)
(* get_batch_definition and validation_definitions.get raise exactly when  *)
(* the name is not held, and then the add call is made.                    *)
Faults ==
    {"none", "get_datasource", "get_asset", "add_batch_definition", "get_suite",
     "add_validation_definition", "run"}

(* run_validation.py:18, 28 *)
BatchDefName(asset_name) == <<asset_name, "batch">>

ValidationName(asset_name, suite_name) == <<asset_name, suite_name, "validation">>

(* what run_validation returns as success (run_validation.py:43, 55, 59):  *)
(* result.success after a completed run, None after an exception          *)
(* a variant that reports an exception as a failed validation *)
OutcomeFailedOnError(completed, ok) == IF completed THEN Some(ok) ELSE Some(FALSE)

Outcome(completed, ok) == IF completed THEN Some(ok) ELSE None

(* run_validation.py:8-59.  fault is the call that raises in this          *)
(* invocation, ok the value of result.success if the run completes.  The   *)
(* result is the returned success, whether an exception was raised inside, *)
(* and the definitions the framework holds afterwards.                     *)
run_validation(bd, vd, asset_name, suite_name, fault, ok) ==
    LET bname   == BatchDefName(asset_name)
        vname   == ValidationName(asset_name, suite_name)
        reach3  == fault \notin {"get_datasource", "get_asset"}
        raise3  == reach3 /\ bname \notin bd /\ fault = "add_batch_definition"
        bd2     == IF reach3 /\ ~raise3 THEN bd \cup {bname} ELSE bd
        reach4  == reach3 /\ ~raise3
        raise4  == reach4 /\ fault = "get_suite"
        reach5  == reach4 /\ ~raise4
        raise5  == reach5 /\ vname \notin vd /\ fault = "add_validation_definition"
        vd2     == IF reach5 /\ ~raise5 THEN vd \cup {vname} ELSE vd
        reach6  == reach5 /\ ~raise5
        raise6  == reach6 /\ fault = "run"
        completed == reach6 /\ ~raise6
    IN  [success |-> Outcome(completed, ok), raised |-> ~completed,
         batch_defs |-> bd2, validation_defs |-> vd2]

(* run_validation.py:94-96 *)
CountIs(res, v) == Cardinality({i \in DOMAIN res : res[i].success = v})

(* a variant that counts every outcome that is not True *)
CountFailedOrSkipped(res) == Cardinality({i \in DOMAIN res : res[i].success # Some(TRUE)})

CountFailed(res) == CountIs(res, Some(FALSE))

(* run_validation.py:105-107: exit(1) if failed > 0, else the script ends *)
ExitStatus(failed) == IF failed > 0 THEN 1 ELSE 0

---------------------------------------------------------------------------
(* Specification SpecValidator: runs of the validator's main()            *)

InitValidator ==
    /\ ValidatorAtRest
    /\ ProfilerAtRest
    /\ GeneratorAtRest

(* run_validation.py:62-79: a validator process starts *)
ValidatorStart ==
    /\ v_pc \in {"idle", "exited"}
    /\ v_runs < MaxValidatorRuns
    /\ v_pc' = "loop"
    /\ v_idx' = 1
    /\ v_runs' = v_runs + 1
    /\ results' = <<>>
    /\ calls' = <<>>
    /\ summary' = <<>>
    /\ exit_code' = <<>>
    /\ UNCHANGED <<batch_defs, validation_defs, gvars, pvars>>

(* run_validation.py:81-87: one iteration of the loop over validations *)
ValidateTriple ==
    /\ v_pc = "loop"
    /\ v_idx <= Len(validations)
    /\ \E fault \in Faults, ok \in BOOLEAN :
        LET v == validations[v_idx]
            r == run_validation(batch_defs, validation_defs,
                                v.asset_name, v.suite_name, fault, ok)
        IN  /\ results' = Append(results, [asset_name |-> v.asset_name,
                                           suite_name |-> v.suite_name,
                                           success |-> r.success])
            /\ calls' = Append(calls, [asset_name |-> v.asset_name,
                                       suite_name |-> v.suite_name,
                                       raised |-> r.raised])
            /\ batch_defs' = r.batch_defs
            /\ validation_defs' = r.validation_defs
    /\ v_idx' = v_idx + 1
    /\ UNCHANGED <<v_pc, v_runs, summary, exit_code, gvars, pvars>>

(* run_validation.py:89-107: the summary and the exit status *)
Summarize ==
    /\ v_pc = "loop"
    /\ v_idx > Len(validations)
    /\ summary' = [passed  |-> CountIs(results, Some(TRUE)),
                   failed  |-> CountFailed(results),
                   skipped |-> CountIs(results, None)]
    /\ exit_code' = Some(ExitStatus(CountFailed(results)))
    /\ v_pc' = "exited"
    /\ UNCHANGED <<batch_defs, validation_defs, v_idx, v_runs, results, calls,
                   gvars, pvars>>

NextValidator ==
    \/ ValidatorStart
    \/ ValidateTriple
    \/ Summarize

SpecValidator == InitValidator /\ [][NextValidator]_vars

---------------------------------------------------------------------------
(* Properties of the validator, checked under SpecValidator               *)

(* C1: after all five triples have been processed the process exits with   *)
(* status 1 if and only if at least one recorded outcome is failed         *)
(* (success False); with only passed and skipped outcomes it exits 0.      *)
C1_ExitStatus ==
    v_pc = "exited" =>
        /\ Len(results) = Len(validations)
        /\ exit_code = IF \E i \in DOMAIN results : results[i].success = Some(FALSE)
                       THEN Some(1) ELSE Some(0)

C1_Witness ==
    /\ v_pc = "exited"
    /\ exit_code = Some(0)
    /\ \A i \in DOMAIN results : results[i].success = None

(* C2: an exception raised at any step of one triple is recorded as a      *)
(* skipped outcome of that triple only; every triple of the list is        *)
(* executed, one outcome is recorded per triple in list order, and         *)
(* passed + failed + skipped is the number of triples.                     *)
C2_ExceptionIsSkip ==
    /\ Len(results) = Len(calls)
    /\ \A i \in DOMAIN results :
        /\ results[i].asset_name = validations[i].asset_name
        /\ results[i].suite_name = validations[i].suite_name
        /\ calls[i].asset_name = validations[i].asset_name
        /\ calls[i].raised <=> (results[i].success = None)
    /\ v_pc = "loop" => Len(results) = v_idx - 1
    /\ v_pc = "exited" =>
        /\ Len(results) = Len(validations)
        /\ summary.passed + summary.failed + summary.skipped = Len(validations)
        /\ summary.skipped = Cardinality({i \in DOMAIN calls : calls[i].raised})

C2_Witness ==
    /\ v_pc = "exited"
    /\ calls[1].raised
    /\ results[1].success = None
    /\ results[2].success = Some(TRUE)
    /\ results[5].success = Some(FALSE)
    /\ summary.skipped = 1

====
